---- MODULE Spec2Model ----
(***************************************************************************)
(* Mid-body detection of cut_detector: the Spot Extractor                  *)
(* (_spot_detection), the Track Builder (generate_tracks_from_spots), the  *)
(* Track Selector (_select_best_track) and the Assembler                   *)
(* (update_mid_body_spots) of MidBodyDetectionFactory.                     *)
(*                                                                         *)
(* Numbers are exact: a float of the program is an integer or a fraction   *)
(* [n |-> numerator, d |-> denominator > 0]; +inf and -inf are the records *)
(* PInf and NInf.  Pixel coordinates are (y, x) with y in Ys and x in Xs.  *)
(***************************************************************************)
EXTENDS Integers, Sequences, FiniteSets, TLC

VARIABLES
    pc,               \* position in the operation under way
    cfg,              \* the factory's constructor arguments
    mode,             \* mb_detect_method / mode
    tracking_method,  \* mb_tracking_method / tracking_method
    movie,            \* mitosis_movie: one image per frame
    mask_movie,       \* mask_movie: one mask per frame
    frame,            \* loop counter of detect_mid_body_spots
    spots_dictionary, \* frame -> list of MidBodySpot (index frame + 1)
    mid_body_tracks,  \* list of MidBodyTrack
    kept_track,       \* result of _select_best_track
    mitosis_track,    \* the MitosisTrack record
    error,            \* the exception that left the operation, or "none"
    linker,           \* the linker configured by _gen_laptrack_tracking
    track_df,         \* the track id predict_dataframe gave each row of spots_df
    rerun_tracks,     \* the tracks of a second generate_tracks_from_spots call
    hereditary,       \* parent_spot / child_spot of the spots of two lists
    mitosis_tracks,   \* the records perform_mid_body_detection loaded
    event,            \* loop counter i of perform_mid_body_detection
    save,             \* the save argument of perform_mid_body_detection
    movies_save_dir,  \* TRUE when perform_mid_body_detection got a movies_save_dir
    saved,            \* event -> the record pickled and the movie written for it
    color_manager,    \* index and id2color of an MbTrackColorManager
    order,            \* the track ids in the order of their first call
    last_color        \* id and colour of the last get_color_for_track call

vars == <<pc, cfg, mode, tracking_method, movie, mask_movie, frame,
          spots_dictionary, mid_body_tracks, kept_track, mitosis_track, error,
          linker, track_df, rerun_tracks, hereditary,
          mitosis_tracks, event, save, movies_save_dir, saved,
          color_manager, order, last_color>>

\* the state of the Track Builder and of _update_spots_hereditary
builder_vars == <<linker, track_df, rerun_tracks, hereditary>>

\* the state of perform_mid_body_detection
widget_vars == <<mitosis_tracks, event, save, movies_save_dir, saved>>

\* the state of an MbTrackColorManager and of its callers
color_vars == <<color_manager, order, last_color>>

None == [none |-> TRUE]

\* no perform_mid_body_detection call is under way
NoWidget ==
    /\ mitosis_tracks = <<>>
    /\ event = 0
    /\ save = FALSE
    /\ movies_save_dir = FALSE
    /\ saved = <<>>

\* no MbTrackColorManager exists
NoColorManager ==
    /\ color_manager = None
    /\ order = <<>>
    /\ last_color = None

-----------------------------------------------------------------------------
(* Bounds of the model *)

\* largest x coordinate of a frame
MaxX == 2
\* largest number of blobs a detector returns for one frame (extractor runs)
MaxBlobs == 2

Ys == {0}
Xs == 0..MaxX
Pixels == Ys \X Xs

-----------------------------------------------------------------------------
(* Helpers *)

RECURSIVE SumSeq(_)
SumSeq(s) == IF s = <<>> THEN 0 ELSE Head(s) + SumSeq(Tail(s))

RECURSIVE SetToSeq(_)
\* the elements of a finite set of integers, in increasing order
SetToSeq(S) ==
    IF S = {} THEN <<>>
    ELSE LET m == CHOOSE a \in S : \A b \in S : a <= b
         IN <<m>> \o SetToSeq(S \ {m})

RECURSIVE SumOver(_, _)
\* sum of img[p] over the pixels p of S
SumOver(S, img) ==
    IF S = {} THEN 0
    ELSE LET p == CHOOSE q \in S : TRUE
         IN img[p] + SumOver(S \ {p}, img)

Abs(a) == IF a < 0 THEN -a ELSE a

-----------------------------------------------------------------------------
(* Spot Extractor *)

\* the mode that stands for a callable passed as detection strategy
CallableMode == "<callable>"

\* the built-in strategy names the interface offers
InterfaceNames ==
    {"bigfish", "h_maxima", "cur_log", "lapgau", "log2_wider",
     "shifted_centered_log", "cur_dog", "diffgau", "cur_doh", "hessian"}

\* the list literal of the membership test: adjacent string literals without
\* a comma are concatenated ("diffgau" "cur_doh")
BlobModeNames ==
    {"cur_log", "lapgau", "log2_wider", "shifted_centered_log",
     "cur_dog", "diffgaucur_doh", "hessian"}

\* the keys of the name -> detector mapping
MappingKeys ==
    {"cur_log", "cur_dog", "cur_doh", "lapgau", "log2_wider", "rshit_log",
     "diffgau", "hessian"}

\* the modes a call may be given
Modes ==
    InterfaceNames \cup {CallableMode, "diffgaucur_doh", "rshit_log", "unknown"}

Raise(e) == [err |-> e, spots |-> <<>>]
Return(s) == [err |-> "none", spots |-> s]

\* smart_cropping(image, margin, x, y, x + 1, y + 1): the pixels of the square
\* of radius margin around (y, x), clipped to the image
SmartCropping(margin, x, y) ==
    {p \in Pixels : /\ y - margin <= p[1] /\ p[1] <= y + margin
                    /\ x - margin <= p[2] /\ p[2] <= x + margin}

\* int(np.mean(crop)) for position = (y, x)
GetAverageIntensity(position, image) ==
    LET crop == SmartCropping(1, position[2], position[1])
    IN SumOver(crop, image) \div Cardinality(crop)

\* (int(spot[0]), int(spot[1], int(spot[2]))): spot[2] of a 2-tuple raises
\* IndexError; int(number, base) raises TypeError
BlobToTuple(spot) ==
    IF Len(spot) < 3 THEN "IndexError" ELSE "TypeError"

\* [BlobToTuple(spot) for spot in blobs]: the first element raises
ConvertBlobs(blobs) ==
    IF blobs = <<>> THEN Return(<<>>) ELSE Raise(BlobToTuple(blobs[1]))

\* the (y, x) points the bigfish branch keeps: inside spots_mask
BigfishSpots(image, mask) ==
    IF mask = {} THEN <<>>
    ELSE SelectSeq([i \in 1..Len(image.blobs) |->
                       <<image.blobs[i][1], image.blobs[i][2]>>],
                   LAMBDA p : p \in mask)

\* the (y, x) centres of mass of the h_maxima branch: the mask is not read
HMaximaSpots(image) ==
    [i \in 1..Len(image.blobs) |-> <<image.blobs[i][1], image.blobs[i][2]>>]

MidBodySpot(fr, px, py, intensity, sir_intensity) ==
    [frame |-> fr, x |-> px, y |-> py,
     intensity |-> intensity, sir_intensity |-> sir_intensity]

\* the final list comprehension of _spot_detection
ToMidBodySpots(spots, image, fr) ==
    [i \in 1..Len(spots) |->
        MidBodySpot(fr, spots[i][2], spots[i][1],
                    GetAverageIntensity(spots[i], image.mklp),
                    GetAverageIntensity(spots[i], image.sir))]

UnknownModeBranch(md) == Raise("ValueError")

\* the if / elif chain of _spot_detection
DetectBlobs(image, mask, md) ==
    IF md = CallableMode THEN ConvertBlobs(image.blobs)
    ELSE IF md \in BlobModeNames THEN
        IF md \notin MappingKeys THEN Raise("KeyError")
        ELSE ConvertBlobs(image.blobs)
    ELSE IF md = "bigfish" THEN Return(BigfishSpots(image, mask))
    ELSE IF md = "h_maxima" THEN Return(HMaximaSpots(image))
    ELSE UnknownModeBranch(md)

SpotDetection(image, mask, md, fr) ==
    LET r == DetectBlobs(image, mask, md)
    IN IF r.err # "none" THEN r
       ELSE Return(ToMidBodySpots(r.spots, image, fr))

-----------------------------------------------------------------------------
(* Exact numbers: fractions, +inf (np.inf) and -inf (-np.inf) *)

Fin(n, d) == [k |-> "fin", n |-> n, d |-> d]
PInf == [k |-> "pinf", n |-> 0, d |-> 1]
NInf == [k |-> "ninf", n |-> 0, d |-> 1]

IsFin(a) == a.k = "fin"

\* a + b for finite a, b
RAdd(a, b) == Fin(a.n * b.d + b.n * a.d, a.d * b.d)

\* a < b and a = b as numbers (np.inf compares above, -np.inf below)
RLess(a, b) ==
    IF a.k = "pinf" \/ b.k = "ninf" THEN FALSE
    ELSE IF a.k = "ninf" \/ b.k = "pinf" THEN TRUE
    ELSE a.n * b.d < b.n * a.d

REq(a, b) ==
    IF IsFin(a) /\ IsFin(b) THEN a.n * b.d = b.n * a.d ELSE a.k = b.k

\* the exact square root of a perfect square
Sqrt(n) == CHOOSE r \in 0..n : r * r = n

-----------------------------------------------------------------------------
(* MidBodyTrack: spots kept in insertion order, keyed by their frame *)

MidBodyTrack(track_id) == [track_id |-> track_id, spots |-> <<>>]

TrackFrameSet(track) == {track.spots[i].frame : i \in 1..Len(track.spots)}

\* track.spots[f]
TrackSpot(track, f) ==
    track.spots[CHOOSE i \in 1..Len(track.spots) : track.spots[i].frame = f]

\* track.length: the count of frames with an assigned spot
TrackLength(track) == Cardinality(TrackFrameSet(track))

\* add_spot: spots[spot.frame] = spot
AddSpot(track, spot) ==
    IF spot.frame \in TrackFrameSet(track)
    THEN [track EXCEPT !.spots =
            [i \in 1..Len(track.spots) |->
                IF track.spots[i].frame = spot.frame THEN spot
                ELSE track.spots[i]]]
    ELSE [track EXCEPT !.spots = Append(track.spots, spot)]

-----------------------------------------------------------------------------
(* Track Selector: the expected mid-body positions *)

\* a boundary point relative to the mitosis bounding box
RelPoint(point, position) ==
    <<point[1] - position.min_x, point[2] - position.min_y>>

Dist2(p, q) == (p[1] - q[1]) * (p[1] - q[1]) + (p[2] - q[2]) * (p[2] - q[2])

\* all (mother point, daughter point) pairs, daughter index running fastest
PointPairs(mother_points, daughter_points, position) ==
    LET nd == Len(daughter_points)
    IN [k \in 1..(Len(mother_points) * nd) |->
          <<RelPoint(mother_points[((k - 1) \div nd) + 1], position),
            RelPoint(daughter_points[((k - 1) % nd) + 1], position)>>]

RECURSIVE ClosestScan(_, _, _, _)
\* the double loop over the pairs: min2 is the squared min_distance, -1 for
\* np.inf; a pair that lowers the minimum passes both tests and is kept twice
ClosestScan(pairs, k, min2, closest_points) ==
    IF k > Len(pairs) THEN closest_points
    ELSE LET d2 == Dist2(pairs[k][1], pairs[k][2])
             lower == min2 = -1 \/ d2 < min2
             new_min2 == IF lower THEN d2 ELSE min2
             c1 == IF lower THEN <<pairs[k]>> ELSE closest_points
             c2 == IF d2 = new_min2 THEN Append(c1, pairs[k]) ELSE c1
         IN ClosestScan(pairs, k + 1, new_min2, c2)

\* np.mean(np.mean(closest_points, axis=0), axis=0): x = nx / d, y = ny / d
MidBodyPosition(closest_points) ==
    LET n == Len(closest_points)
    IN [nx |-> SumSeq([i \in 1..n |->
                   closest_points[i][1][1] + closest_points[i][2][1]]),
        ny |-> SumSeq([i \in 1..n |->
                   closest_points[i][1][2] + closest_points[i][2][2]]),
        d |-> 2 * n]

\* a loop that stops (break) at the first frame where a cell is missing
ExpectedFrames_StopAtMissing(mt, daughter_track, duration) ==
    {f \in daughter_track.start..(daughter_track.start + duration - 1) :
        \A g \in daughter_track.start..f :
            g \in DOMAIN daughter_track.spots /\ g \in DOMAIN mt.mother_track.spots}

\* the frames of the window at which both cells are segmented
ExpectedFrames(mt, daughter_track, duration) ==
    {f \in daughter_track.start..(daughter_track.start + duration - 1) :
        f \in DOMAIN daughter_track.spots /\ f \in DOMAIN mt.mother_track.spots}

\* expected_positions: relative frame -> expected mid-body position
ExpectedPositions(mt, duration) ==
    LET daughter_track == mt.daughter_tracks[1]
        frames == ExpectedFrames(mt, daughter_track, duration)
    IN [r \in {f - mt.min_frame : f \in frames} |->
          LET f == r + mt.min_frame
          IN MidBodyPosition(
                ClosestScan(PointPairs(mt.mother_track.spots[f],
                                       daughter_track.spots[f], mt.position),
                            1, -1, <<>>))]

\* the distance between a spot and an expected position, as a fraction
SpotDistance(spot, pos) ==
    Fin(Sqrt((spot.x * pos.d - pos.nx) * (spot.x * pos.d - pos.nx)
             + (spot.y * pos.d - pos.ny) * (spot.y * pos.d - pos.ny)),
        pos.d)

RECURSIVE SumDistances(_, _, _)
SumDistances(track, expected_positions, i) ==
    IF i > Len(track.spots) THEN Fin(0, 1)
    ELSE LET rest == SumDistances(track, expected_positions, i + 1)
             s == track.spots[i]
         IN IF s.frame \in DOMAIN expected_positions
            THEN RAdd(SpotDistance(s, expected_positions[s.frame]), rest)
            ELSE rest

\* track.get_expected_distance: the mean distance to the expected position over
\* the frames that have one; np.inf when no frame has
GetExpectedDistance(track, expected_positions) ==
    LET n == Cardinality(TrackFrameSet(track) \cap DOMAIN expected_positions)
        total == SumDistances(track, expected_positions, 1)
    IN IF n = 0 THEN PInf ELSE Fin(total.n, total.d * n)

-----------------------------------------------------------------------------
(* Track Selector: length filter, intensity score, ranking *)

\* a filter that keeps the tracks of exactly the minimum length too
LengthFilter_AtLeast(tracks, minimum) ==
    SelectSeq(tracks, LAMBDA track : TrackLength(track) >= minimum)

\* the tracks with more than minimum_mid_body_track_length spots
LengthFilter(tracks, minimum) ==
    SelectSeq(tracks, LAMBDA track : TrackLength(track) > minimum)

\* the last frame of the intensity window: c + int(cytokinesis_duration / 2)
AbsMaxFrame(abs_min_frame, duration) == abs_min_frame + (duration \div 2)

\* the frames of the window at which the track has a spot
WindowFrames(track, mt, duration) ==
    LET abs_min_frame == mt.key_events_frame.cytokinesis
    IN {f \in abs_min_frame..AbsMaxFrame(abs_min_frame, duration) :
           f - mt.min_frame \in TrackFrameSet(track)}

\* the same test with a floor division
TooFewFrames_FloorDivision(frame_count, abs_min_frame, abs_max_frame) ==
    frame_count < (abs_max_frame - abs_min_frame + 1) \div 2

\* frame_count < (abs_max_frame - abs_min_frame + 1) / 2
TooFewFrames(frame_count, abs_min_frame, abs_max_frame) ==
    2 * frame_count < abs_max_frame - abs_min_frame + 1

\* sir_intensity_track[idx]: the mean of image_sir at the track's spots of the
\* window, or -np.inf
SirIntensityTrack(track, mt, mov, duration) ==
    LET abs_track_frames ==
            [i \in 1..Len(track.spots) |-> track.spots[i].frame + mt.min_frame]
        abs_min_frame == mt.key_events_frame.cytokinesis
        abs_max_frame == AbsMaxFrame(abs_min_frame, duration)
        outside == \/ abs_min_frame > abs_track_frames[Len(abs_track_frames)]
                   \/ abs_max_frame < abs_track_frames[1]
        frames == WindowFrames(track, mt, duration)
        frame_count == Cardinality(frames)
        total == SumSeq([i \in 1..frame_count |->
                    LET f == SetToSeq(frames)[i]
                        track_spot == TrackSpot(track, f - mt.min_frame)
                    IN mov[f - mt.min_frame + 1].sir[<<track_spot.y, track_spot.x>>]])
    IN IF TooFewFrames(frame_count, abs_min_frame, abs_max_frame) THEN NInf
       ELSE IF outside THEN NInf
       ELSE Fin(total, frame_count)

\* a - 0.5 * b
ScoreOf(a, b) ==
    IF b.k = "ninf" THEN PInf
    ELSE IF a.k = "pinf" THEN PInf
    ELSE Fin(2 * a.n * b.d - b.n * a.d, 2 * a.d * b.d)

\* func_sir_intensity(track)
FuncSirIntensity(track, mt, mov, c) ==
    ScoreOf(GetExpectedDistance(track,
                                ExpectedPositions(mt, c.cytokinesis_duration)),
            SirIntensityTrack(track, mt, mov, c.cytokinesis_duration))

\* no removal of the tracks with an infinite func value
FinalTracks_KeepInfinite(tracks, mt, mov, c) == tracks

\* the tracks whose func value is not np.inf
FinalTracks(tracks, mt, mov, c) ==
    SelectSeq(tracks, LAMBDA track : FuncSirIntensity(track, mt, mov, c) # PInf)

RECURSIVE InsertByKey(_, _, _, _, _)
\* sorted with key, stable: t goes after every element whose key is not above
InsertByKey(sorted, t, mt, mov, c) ==
    IF sorted = <<>> THEN <<t>>
    ELSE IF RLess(FuncSirIntensity(t, mt, mov, c),
                  FuncSirIntensity(Head(sorted), mt, mov, c))
         THEN <<t>> \o sorted
         ELSE <<Head(sorted)>> \o InsertByKey(Tail(sorted), t, mt, mov, c)

RECURSIVE SortedTracks(_, _, _, _)
\* sorted(final_tracks, key=func_sir_intensity)
SortedTracks(tracks, mt, mov, c) ==
    IF tracks = <<>> THEN <<>>
    ELSE InsertByKey(SortedTracks(SubSeq(tracks, 1, Len(tracks) - 1), mt, mov, c),
                     tracks[Len(tracks)], mt, mov, c)

\* the last track of the sorted list instead of the first
SelectBestTrack_Last(mt, tracks, mov, c) ==
    LET filtered == LengthFilter(tracks, c.minimum_mid_body_track_length)
        sorted_tracks == SortedTracks(FinalTracks(filtered, mt, mov, c), mt, mov, c)
    IN IF Len(sorted_tracks) > 0 THEN sorted_tracks[Len(sorted_tracks)] ELSE None

\* _select_best_track
SelectBestTrack(mt, tracks, mov, c) ==
    LET filtered == LengthFilter(tracks, c.minimum_mid_body_track_length)
        sorted_tracks == SortedTracks(FinalTracks(filtered, mt, mov, c), mt, mov, c)
    IN IF Len(sorted_tracks) > 0 THEN sorted_tracks[1] ELSE None

-----------------------------------------------------------------------------
(* Track Builder *)

\* the rows of spots_df: one row per spot, one row of None values for a frame
\* without spots
PlaceholderRow(fr) ==
    [frame |-> fr, isnan |-> TRUE, x |-> 0, y |-> 0, mlkp |-> 0, sir |-> 0]

SpotRow(spot) ==
    [frame |-> spot.frame, isnan |-> FALSE, x |-> spot.x, y |-> spot.y,
     mlkp |-> spot.intensity, sir |-> spot.sir_intensity]

RECURSIVE SpotsDf(_, _)
SpotsDf(spots_candidates, n) ==
    IF n = 0 THEN <<>>
    ELSE SpotsDf(spots_candidates, n - 1) \o
         (IF Len(spots_candidates[n]) = 0 THEN <<PlaceholderRow(n - 1)>>
          ELSE [i \in 1..Len(spots_candidates[n]) |->
                   SpotRow(spots_candidates[n][i])])

\* 3 * weight * |a - b| / (a + b) as a fraction; 0 / 0 is nan
IntensityFactor == 3

NaN == [k |-> "nan", n |-> 0, d |-> 1]

Penalty(weight, a, b) ==
    IF a + b = 0 THEN NaN
    ELSE Fin(IntensityFactor * weight.n * Abs(a - b), weight.d * (a + b))

\* dist_metric(c1, c2): (spatial_e * penalty) ** 2
DistMetric(c1, c2, c) ==
    IF c1.isnan \/ c2.isnan THEN Fin(c.mid_body_linking_max_distance * 2, 1)
    ELSE LET mkpl_penalty == Penalty(c.weight_mklp_intensity_factor, c1.mlkp, c2.mlkp)
             sir_penalty == Penalty(c.weight_sir_intensity_factor, c1.sir, c2.sir)
         IN IF mkpl_penalty = NaN \/ sir_penalty = NaN THEN NaN
            ELSE LET penalty == RAdd(Fin(1, 1), RAdd(sir_penalty, mkpl_penalty))
                     d2 == Dist2(<<c1.x, c1.y>>, <<c2.x, c2.y>>)
                 IN Fin(d2 * penalty.n * penalty.n, penalty.d * penalty.d)

TrackingMethods == {"laptrack", "spatial_laptrack"}

\* the argument of a call that names no tracking method
Unnamed == "<unnamed>"

\* tracking_method: TRACKING_MODE = "laptrack", and
\* mb_tracking_method: Literal[...] = "laptrack" of update_mid_body_spots
DefaultTrackingMethod == "laptrack"

TrackingMethodUsed(method) ==
    IF method = Unnamed THEN DefaultTrackingMethod ELSE method

\* a fall-through to the first linker instead of the raise
InvalidMethodBranch_FallsThrough(method, c) ==
    [err |-> "none", class |-> "LapTrack",
     splitting_cost_cutoff |-> FALSE, merging_cost_cutoff |-> FALSE,
     track_cost_cutoff |-> c.mid_body_linking_max_distance * c.mid_body_linking_max_distance,
     gap_closing_cost_cutoff |-> c.mid_body_linking_max_distance * c.mid_body_linking_max_distance,
     gap_closing_max_frame_count |-> 2]

\* else: raise RuntimeError(f"Invalid tracking method '{tracking_method}'")
InvalidMethodBranch(method, c) == [err |-> "RuntimeError"]

\* the linker configured by the if / elif chain of _gen_laptrack_tracking
LinkerConfig(method, c) ==
    LET max_distance == c.mid_body_linking_max_distance
    IN IF method = "laptrack" THEN
           [err |-> "none", class |-> "LapTrack",
            splitting_cost_cutoff |-> FALSE, merging_cost_cutoff |-> FALSE,
            track_cost_cutoff |-> max_distance * max_distance,
            gap_closing_cost_cutoff |-> max_distance * max_distance,
            gap_closing_max_frame_count |-> 2]
       ELSE IF method = "spatial_laptrack" THEN
           [err |-> "none", class |-> "SpatialLapTrack",
            splitting_cost_cutoff |-> FALSE, merging_cost_cutoff |-> FALSE,
            track_cost_cutoff |-> max_distance,
            gap_closing_cost_cutoff |-> max_distance,
            gap_closing_max_frame_count |-> 3]
       ELSE InvalidMethodBranch(method, c)

\* a cost the linker may accept under a cutoff; a nan cost compares either way
CostAllows(cost, cutoff) ==
    cost = NaN \/ cost.n < cutoff * cost.d

\* the linker may join row a to the later row b of a track
LinkAllowed(a, b, lt, c) ==
    /\ a.frame < b.frame
    /\ IF b.frame = a.frame + 1
       THEN CostAllows(DistMetric(a, b, c), lt.track_cost_cutoff)
       ELSE /\ b.frame - a.frame <= lt.gap_closing_max_frame_count
            /\ CostAllows(DistMetric(a, b, c), lt.gap_closing_cost_cutoff)

RECURSIVE MaxOf(_)
MaxOf(s) == IF s = <<>> THEN -1
            ELSE LET m == MaxOf(Tail(s)) IN IF Head(s) > m THEN Head(s) ELSE m

\* row n may get track id t after the ids l of the rows before it: t is a
\* new id, or the last row of track t is joined to row n by an allowed link
MayJoin(rows, l, n, t, lt, c) ==
    LET before == {k \in 1..Len(l) : l[k] = t}
    IN before # {} =>
           LinkAllowed(rows[CHOOSE k \in before : \A m \in before : m <= k],
                       rows[n], lt, c)

RECURSIVE Labelings(_, _, _, _)
\* the ways to give the first n rows track ids, ids numbered in order of first
\* use
Labelings(rows, n, lt, c) ==
    IF n = 0 THEN {<<>>}
    ELSE UNION {{Append(l, t) : t \in {u \in 0..(MaxOf(l) + 1) :
                                           MayJoin(rows, l, n, u, lt, c)}} :
                   l \in Labelings(rows, n - 1, lt, c)}

\* predict_dataframe: the track ids the linker may give the rows; without
\* splitting and merging a track has one row per frame, and every row is
\* joined to the next row of its track by an allowed link
LinkerOutcomes(rows, lt, c) == Labelings(rows, Len(rows), lt, c)

\* track_df without the dropna: every row is kept
KeptRows_NoDropna(rows) == [i \in 1..Len(rows) |-> i]

\* track_df after reset_index and dropna: the indexes of the rows kept
KeptRows(rows) == SelectSeq([i \in 1..Len(rows) |-> i], LAMBDA i : ~rows[i].isnan)

\* spot_to_track_id[(frame, x, y)]: the id of the last kept row at that key
SpotToTrackId(rows, labels, fr, px, py) ==
    LET hits == {i \in 1..Len(rows) :
                    /\ ~rows[i].isnan /\ rows[i].frame = fr
                    /\ rows[i].x = px /\ rows[i].y = py}
    IN labels[CHOOSE i \in hits : \A j \in hits : j <= i]

RECURSIVE TrackIdOrder(_, _, _)
\* the keys of track_id_to_mb_track in insertion order
TrackIdOrder(rows, labels, kept) ==
    IF kept = <<>> THEN <<>>
    ELSE LET rest == TrackIdOrder(rows, labels, SubSeq(kept, 1, Len(kept) - 1))
             tid == labels[kept[Len(kept)]]
         IN IF \E i \in 1..Len(rest) : rest[i] = tid THEN rest
            ELSE Append(rest, tid)

RECURSIVE AddSpots(_, _, _, _)
\* the loop that adds every spot to the track of its (frame, x, y) key
AddSpots(track, spots, rows, labels) ==
    IF spots = <<>> THEN track
    ELSE LET spot == Head(spots)
             next == IF SpotToTrackId(rows, labels, spot.frame, spot.x, spot.y)
                        = track.track_id
                     THEN AddSpot(track, spot) ELSE track
         IN AddSpots(next, Tail(spots), rows, labels)

RECURSIVE Flatten(_)
Flatten(ss) == IF ss = <<>> THEN <<>> ELSE Head(ss) \o Flatten(Tail(ss))

\* the output data conversion of _gen_laptrack_tracking
MaterialiseTracks(spots_candidates, rows, labels) ==
    LET ids == TrackIdOrder(rows, labels, KeptRows(rows))
    IN [k \in 1..Len(ids) |->
          AddSpots(MidBodyTrack(ids[k]), Flatten(spots_candidates), rows, labels)]

-----------------------------------------------------------------------------
(* Inputs *)

\* frames of a mitosis movie given to update_mid_body_spots
NbFrames == 3
\* frames of a mitosis movie given to _select_best_track alone
NbSelectFrames == 3
\* the numbers of candidate tracks given to _select_best_track alone
TrackCounts == {0, 1, 2}
\* largest cytokinesis_duration and minimum_mid_body_track_length tried
MaxDuration == 4
MaxMinimumLength == 2

\* the constructor arguments; the weights are the defaults 5.0 and 1.50
Config(max_distance, duration, minimum) ==
    [weight_mklp_intensity_factor |-> Fin(5, 1),
     weight_sir_intensity_factor |-> Fin(3, 2),
     mid_body_linking_max_distance |-> max_distance,
     cytokinesis_duration |-> duration,
     minimum_mid_body_track_length |-> minimum]

\* channel images: constant, and brighter to the right
FlatImage == [p \in Pixels |-> 4]
RampImage == [p \in Pixels |-> 2 + 2 * p[2]]

Image(blobs, mklp, sir) == [blobs |-> blobs, mklp |-> mklp, sir |-> sir]

FullMask == Pixels

\* the polygon of a cell as boundary points (x, y)
MotherPoints == <<<<0, 0>>>>
DaughterPoints(f) == IF f % 2 = 0 THEN <<<<4, 0>>>> ELSE <<<<2, 0>>, <<-2, 0>>>>

\* a MitosisTrack whose mother and daughter tracks are resolved; the mother is
\* segmented at mother_frames, the first daughter from start on
MitosisTrack(min_frame, cytokinesis, start, mother_frames, nb_frames, old_spots) ==
    [min_frame |-> min_frame,
     position |-> [min_x |-> 0, min_y |-> 0],
     key_events_frame |-> [cytokinesis |-> cytokinesis],
     mother_track |-> [spots |-> [f \in mother_frames |-> MotherPoints]],
     daughter_tracks |->
        <<[start |-> start,
           spots |-> [f \in start..(min_frame + nb_frames - 1) |-> DaughterPoints(f)]]>>,
     mid_body_spots |-> old_spots]

MinFrames == {0, 1}

\* mid_body_spots before the call: empty, or one entry of an earlier run
OldSpots(min_frame, earlier) ==
    IF earlier THEN [f \in {min_frame + 1} |-> MidBodySpot(1, 1, 0, 9, 9)] ELSE <<>>

\* a gap <<so, gone>>: the daughter starts so frames late, the mother misses
\* frame min_frame + gone (no frame when gone is -1)
Gaps == {0, 1} \X {-1, 1}

MitosisTracks(nb_frames, earlier_runs, gaps) ==
    {MitosisTrack(m, m + co, m + g[1], (m..(m + nb_frames - 1)) \ {m + g[2]},
                  nb_frames, OldSpots(m, earlier)) :
        m \in MinFrames, co \in {0, 1}, g \in gaps, earlier \in earlier_runs}

-----------------------------------------------------------------------------
(* _select_best_track called on candidate tracks *)

SelectSpot(fr, px) == MidBodySpot(fr, px, 0, 4, 4)

\* a track that stays at x over the frames of F, built by add_spot in frame order
StillTrack(track_id, F, px) ==
    [track_id |-> track_id,
     spots |-> [i \in 1..Cardinality(F) |-> SelectSpot(SetToSeq(F)[i], px)]]

TrackShapes ==
    {<<F, px>> : F \in (SUBSET (0..(NbSelectFrames - 1))) \ {{}}, px \in {0, MaxX}}

CandidateLists ==
    UNION {{[i \in 1..n |-> StillTrack(i - 1, l[i][1], l[i][2])] :
               l \in [1..n -> TrackShapes]} : n \in TrackCounts}

SelectConfigs ==
    {Config(MaxX, dur, minimum) : dur \in 3..MaxDuration, minimum \in 1..MaxMinimumLength}

SelectMovies ==
    {[f \in 1..NbSelectFrames |-> Image(<<>>, FlatImage, sir)] : sir \in {FlatImage, RampImage}}

InitSelect ==
    /\ pc = "select_call"
    /\ cfg \in SelectConfigs
    /\ mode = "h_maxima"
    /\ tracking_method = "laptrack"
    /\ movie \in SelectMovies
    /\ mask_movie = [f \in 1..NbSelectFrames |-> FullMask]
    /\ frame = 0
    /\ spots_dictionary = <<>>
    /\ mid_body_tracks \in CandidateLists
    /\ kept_track = None
    /\ mitosis_track \in MitosisTracks(NbSelectFrames, {FALSE}, {<<0, -1>>, <<1, 1>>})
    /\ error = "none"
    /\ NoWidget
    /\ NoColorManager
    /\ linker = None
    /\ track_df = <<>>
    /\ rerun_tracks = <<>>
    /\ hereditary = None

CallSelectBestTrack ==
    /\ pc = "select_call"
    /\ kept_track' = SelectBestTrack(mitosis_track, mid_body_tracks, movie, cfg)
    /\ pc' = "select_done"
    /\ UNCHANGED builder_vars
    /\ UNCHANGED <<widget_vars, color_vars>>
    /\ UNCHANGED <<cfg, mode, tracking_method, movie, mask_movie, frame,
                   spots_dictionary, mid_body_tracks, mitosis_track, error>>

NextSelect == CallSelectBestTrack

SpecSelect == InitSelect /\ [][NextSelect]_vars

-----------------------------------------------------------------------------
(* Properties of _select_best_track *)

SelectDone == pc = "select_done"

Candidates == 1..Len(mid_body_tracks)

Deviation(i) ==
    GetExpectedDistance(mid_body_tracks[i],
                        ExpectedPositions(mitosis_track, cfg.cytokinesis_duration))

MeanSir(i) ==
    SirIntensityTrack(mid_body_tracks[i], mitosis_track, movie, cfg.cytokinesis_duration)

Score(i) == ScoreOf(Deviation(i), MeanSir(i))

PassesLength(i) ==
    Len(mid_body_tracks[i].spots) > cfg.minimum_mid_body_track_length

Surviving == {i \in Candidates : PassesLength(i) /\ IsFin(Score(i))}

\* C3: _select_best_track returns a track of lowest score among the tracks
\* that passed the length filter and have a finite score, and None when there
\* is no such track (the empty candidate list included).
C3_LowestScoreOrNone ==
    SelectDone =>
        IF Surviving = {} THEN kept_track = None
        ELSE \E i \in Surviving :
                /\ kept_track = mid_body_tracks[i]
                /\ \A j \in Surviving : ~RLess(Score(j), Score(i))

C3_Witness ==
    /\ SelectDone
    /\ \E i \in Surviving : \E j \in Surviving :
          /\ kept_track = mid_body_tracks[i]
          /\ j < i
          /\ RLess(Score(i), Score(j))

IntensityWindow ==
    mitosis_track.key_events_frame.cytokinesis ..
        (mitosis_track.key_events_frame.cytokinesis + (cfg.cytokinesis_duration \div 2))

\* the number of window frames at which candidate i has a spot
Coverage(i) ==
    Cardinality({f \in IntensityWindow :
        \E k \in 1..Len(mid_body_tracks[i].spots) :
            mid_body_tracks[i].spots[k].frame + mitosis_track.min_frame = f})

\* C5: a track that has a spot in fewer than half of the frames of the window
\* c .. c + floor(cytokinesis_duration / 2) is never returned, and its
\* intensity score, computed once it passed the length filter, is -inf.
C5_SparseCoverageNonViable ==
    SelectDone =>
        \A i \in Candidates :
            (2 * Coverage(i) < Cardinality(IntensityWindow))
                => /\ PassesLength(i) => MeanSir(i) = NInf
                   /\ kept_track # mid_body_tracks[i]

C5_Witness ==
    /\ SelectDone
    /\ kept_track # None
    /\ \E i \in Candidates :
          /\ PassesLength(i)
          /\ IsFin(Deviation(i))
          /\ Coverage(i) > 0
          /\ 2 * Coverage(i) < Cardinality(IntensityWindow)

\* C6: of two surviving tracks with equal mean secondary intensity, the one
\* with the strictly higher expected-position deviation is never returned,
\* whatever their order in the list.
C6_SelectorMonotonicity ==
    SelectDone =>
        \A i \in Surviving : \A j \in Surviving :
            (REq(MeanSir(i), MeanSir(j)) /\ RLess(Deviation(i), Deviation(j)))
                => kept_track # mid_body_tracks[j]

C6_Witness ==
    /\ SelectDone
    /\ \E i \in Surviving : \E j \in Surviving :
          /\ j < i
          /\ REq(MeanSir(i), MeanSir(j))
          /\ RLess(Deviation(i), Deviation(j))
          /\ kept_track = mid_body_tracks[i]

-----------------------------------------------------------------------------
(* _spot_detection called on one frame *)

\* what a detector may return for a frame: (y, x) or (y, x, scale) tuples
Blobs == {<<0, x>> : x \in Xs} \cup {<<0, x, 1>> : x \in Xs}

RECURSIVE BlobLists(_)
BlobLists(n) ==
    IF n = 0 THEN {<<>>}
    ELSE LET shorter == BlobLists(n - 1)
         IN shorter \cup {Append(l, b) : l \in {q \in shorter : Len(q) = n - 1},
                                         b \in Blobs}

DetectImages ==
    {Image(blobs, ch[1], ch[2]) :
        blobs \in BlobLists(MaxBlobs),
        ch \in {<<FlatImage, RampImage>>, <<RampImage, FlatImage>>}}

DetectMasks == {FullMask, {}, {<<0, 0>>}}

InitDetect ==
    /\ pc = "detect_call"
    /\ cfg = Config(MaxX, 3, 1)
    /\ mode \in Modes
    /\ tracking_method = "laptrack"
    /\ movie \in {<<image>> : image \in DetectImages}
    /\ mask_movie \in {<<mask>> : mask \in DetectMasks}
    /\ frame \in {0, 1}
    /\ spots_dictionary = <<>>
    /\ mid_body_tracks = <<>>
    /\ kept_track = None
    /\ mitosis_track = MitosisTrack(0, 0, 0, {0}, 1, <<>>)
    /\ error = "none"
    /\ NoWidget
    /\ NoColorManager
    /\ linker = None
    /\ track_df = <<>>
    /\ rerun_tracks = <<>>
    /\ hereditary = None

SpotDetectionReturns ==
    /\ pc = "detect_call"
    /\ LET r == SpotDetection(movie[1], mask_movie[1], mode, frame)
       IN /\ r.err = "none"
          /\ spots_dictionary' = <<r.spots>>
    /\ pc' = "detect_returned"
    /\ UNCHANGED builder_vars
    /\ UNCHANGED <<widget_vars, color_vars>>
    /\ UNCHANGED <<cfg, mode, tracking_method, movie, mask_movie, frame,
                   mid_body_tracks, kept_track, mitosis_track, error>>

SpotDetectionRaises ==
    /\ pc = "detect_call"
    /\ LET r == SpotDetection(movie[1], mask_movie[1], mode, frame)
       IN /\ r.err # "none"
          /\ error' = r.err
    /\ pc' = "detect_raised"
    /\ UNCHANGED builder_vars
    /\ UNCHANGED <<widget_vars, color_vars>>
    /\ UNCHANGED <<cfg, mode, tracking_method, movie, mask_movie, frame,
                   spots_dictionary, mid_body_tracks, kept_track, mitosis_track>>

NextDetect == SpotDetectionReturns \/ SpotDetectionRaises

SpecDetect == InitDetect /\ [][NextDetect]_vars

-----------------------------------------------------------------------------
(* update_mid_body_spots *)

PipelineMovies ==
    LET images == {Image(blobs, FlatImage, RampImage) :
                      blobs \in {<<>>, <<<<0, 0, 1>>>>, <<<<0, MaxX, 1>>>>}}
    IN [1..NbFrames -> images]

PipelineConfigs == {Config(d, 3, 1) : d \in {MaxX, 5}}

Init ==
    /\ pc = "detect"
    /\ cfg \in PipelineConfigs
    /\ mode \in Modes
    /\ tracking_method \in TrackingMethods \cup {Unnamed, "trackmate"}
    /\ movie \in PipelineMovies
    /\ mask_movie = [f \in 1..NbFrames |-> FullMask]
    /\ frame = 0
    /\ spots_dictionary = <<>>
    /\ mid_body_tracks = <<>>
    /\ kept_track = None
    /\ mitosis_track \in MitosisTracks(NbFrames, {FALSE, TRUE}, Gaps)
    /\ error = "none"
    /\ NoWidget
    /\ NoColorManager
    /\ linker = None
    /\ track_df = <<>>
    /\ rerun_tracks = <<>>
    /\ hereditary = None

\* an iteration that stores no entry for a frame without detection
DetectFrame_SkipsEmpty ==
    /\ pc = "detect"
    /\ frame < Len(movie)
    /\ LET r == SpotDetection(movie[frame + 1], mask_movie[frame + 1], mode, frame)
       IN /\ r.err = "none"
          /\ spots_dictionary' = IF r.spots = <<>> THEN spots_dictionary
                                 ELSE Append(spots_dictionary, r.spots)
    /\ frame' = frame + 1
    /\ pc' = IF frame + 1 = Len(movie) THEN "track" ELSE "detect"
    /\ UNCHANGED builder_vars
    /\ UNCHANGED <<widget_vars, color_vars>>
    /\ UNCHANGED <<cfg, mode, tracking_method, movie, mask_movie,
                   mid_body_tracks, kept_track, mitosis_track, error>>

\* one iteration of the loop of detect_mid_body_spots
DetectFrame ==
    /\ pc = "detect"
    /\ frame < Len(movie)
    /\ LET r == SpotDetection(movie[frame + 1], mask_movie[frame + 1], mode, frame)
       IN /\ r.err = "none"
          /\ spots_dictionary' = Append(spots_dictionary, r.spots)
    /\ frame' = frame + 1
    /\ pc' = IF frame + 1 = Len(movie) THEN "track" ELSE "detect"
    /\ UNCHANGED builder_vars
    /\ UNCHANGED <<widget_vars, color_vars>>
    /\ UNCHANGED <<cfg, mode, tracking_method, movie, mask_movie,
                   mid_body_tracks, kept_track, mitosis_track, error>>

\* _spot_detection raises: the exception leaves update_mid_body_spots
DetectFrameRaises ==
    /\ pc = "detect"
    /\ frame < Len(movie)
    /\ LET r == SpotDetection(movie[frame + 1], mask_movie[frame + 1], mode, frame)
       IN /\ r.err # "none"
          /\ error' = r.err
    /\ pc' = "raised"
    /\ UNCHANGED builder_vars
    /\ UNCHANGED <<widget_vars, color_vars>>
    /\ UNCHANGED <<cfg, mode, tracking_method, movie, mask_movie, frame,
                   spots_dictionary, mid_body_tracks, kept_track, mitosis_track>>

\* generate_tracks_from_spots with a recognised tracking method
GenerateTracks ==
    /\ pc = "track"
    /\ LET lt == LinkerConfig(TrackingMethodUsed(tracking_method), cfg)
           rows == SpotsDf(spots_dictionary, Len(spots_dictionary))
       IN /\ lt.err = "none"
          /\ linker' = lt
          /\ \E labels \in LinkerOutcomes(rows, lt, cfg) :
                /\ track_df' = labels
                /\ mid_body_tracks' = MaterialiseTracks(spots_dictionary, rows, labels)
    /\ pc' = "select"
    /\ UNCHANGED <<rerun_tracks, hereditary>>
    /\ UNCHANGED <<widget_vars, color_vars>>
    /\ UNCHANGED <<cfg, mode, tracking_method, movie, mask_movie, frame,
                   spots_dictionary, kept_track, mitosis_track, error>>

\* generate_tracks_from_spots with any other tracking method
GenerateTracksRaises ==
    /\ pc = "track"
    /\ LinkerConfig(TrackingMethodUsed(tracking_method), cfg).err # "none"
    /\ error' = LinkerConfig(TrackingMethodUsed(tracking_method), cfg).err
    /\ pc' = "raised"
    /\ UNCHANGED builder_vars
    /\ UNCHANGED <<widget_vars, color_vars>>
    /\ UNCHANGED <<cfg, mode, tracking_method, movie, mask_movie, frame,
                   spots_dictionary, mid_body_tracks, kept_track, mitosis_track>>

SelectTrack ==
    /\ pc = "select"
    /\ kept_track' = SelectBestTrack(mitosis_track, mid_body_tracks, movie, cfg)
    /\ pc' = "write"
    /\ UNCHANGED builder_vars
    /\ UNCHANGED <<widget_vars, color_vars>>
    /\ UNCHANGED <<cfg, mode, tracking_method, movie, mask_movie, frame,
                   spots_dictionary, mid_body_tracks, mitosis_track, error>>

\* a return that empties mid_body_spots when no track is selected
ReturnWithoutTrack_Clears ==
    /\ pc = "write"
    /\ kept_track = None
    /\ mitosis_track' = [mitosis_track EXCEPT !.mid_body_spots = <<>>]
    /\ pc' = "done"
    /\ UNCHANGED builder_vars
    /\ UNCHANGED <<widget_vars, color_vars>>
    /\ UNCHANGED <<cfg, mode, tracking_method, movie, mask_movie, frame,
                   spots_dictionary, mid_body_tracks, kept_track, error>>

\* if kept_track is None: return
ReturnWithoutTrack ==
    /\ pc = "write"
    /\ kept_track = None
    /\ pc' = "done"
    /\ UNCHANGED builder_vars
    /\ UNCHANGED <<widget_vars, color_vars>>
    /\ UNCHANGED <<cfg, mode, tracking_method, movie, mask_movie, frame,
                   spots_dictionary, mid_body_tracks, kept_track, mitosis_track, error>>

\* the spots written at their relative frame, without the shift
WrittenSpots_NoShift(mt, track) ==
    LET new_frames == TrackFrameSet(track)
    IN [f \in (DOMAIN mt.mid_body_spots) \cup new_frames |->
          IF f \in new_frames THEN TrackSpot(track, f)
          ELSE mt.mid_body_spots[f]]

\* mitosis_track.mid_body_spots[rel_frame + min_frame] = spot, for every spot
WrittenSpots(mt, track) ==
    LET new_frames == {f + mt.min_frame : f \in TrackFrameSet(track)}
    IN [f \in (DOMAIN mt.mid_body_spots) \cup new_frames |->
          IF f \in new_frames THEN TrackSpot(track, f - mt.min_frame)
          ELSE mt.mid_body_spots[f]]

WriteSpots ==
    /\ pc = "write"
    /\ kept_track # None
    /\ mitosis_track' =
          [mitosis_track EXCEPT !.mid_body_spots = WrittenSpots(mitosis_track, kept_track)]
    /\ pc' = "done"
    /\ UNCHANGED builder_vars
    /\ UNCHANGED <<widget_vars, color_vars>>
    /\ UNCHANGED <<cfg, mode, tracking_method, movie, mask_movie, frame,
                   spots_dictionary, mid_body_tracks, kept_track, error>>

Next ==
    \/ DetectFrame
    \/ DetectFrameRaises
    \/ GenerateTracks
    \/ GenerateTracksRaises
    \/ SelectTrack
    \/ ReturnWithoutTrack
    \/ WriteSpots

Spec == Init /\ [][Next]_vars

-----------------------------------------------------------------------------
(* Properties of update_mid_body_spots and generate_tracks_from_spots *)

\* C1: as long as no track is selected, no step of update_mid_body_spots
\* changes the mitosis record; in particular the return taken when the
\* Selector gives None leaves mid_body_spots and every other field as they
\* were.
C1_NoTrackNoSideEffect ==
    [][kept_track' = None => mitosis_track' = mitosis_track]_vars

C1_Witness ==
    /\ pc = "done"
    /\ kept_track = None
    /\ Len(mid_body_tracks) > 0
    /\ DOMAIN mitosis_track.mid_body_spots # {}

\* C2: after update_mid_body_spots selected a track, every spot s of the track
\* at relative frame r is held at mid_body_spots[r + min_frame].
C2_SpotsWrittenShifted ==
    (pc = "done" /\ kept_track # None) =>
        \A k \in 1..Len(kept_track.spots) :
            LET f == kept_track.spots[k].frame + mitosis_track.min_frame
            IN /\ f \in DOMAIN mitosis_track.mid_body_spots
               /\ mitosis_track.mid_body_spots[f] = kept_track.spots[k]

C2_Witness ==
    /\ pc = "done"
    /\ kept_track # None
    /\ mitosis_track.min_frame > 0
    /\ Len(kept_track.spots) > 1
    /\ \E k \in 1..Len(kept_track.spots) : kept_track.spots[k].frame = 0

\* C10: generate_tracks_from_spots reached with a tracking method other than
\* "laptrack" and "spatial_laptrack" leaves with the invalid-method error
\* (RuntimeError) and returns no tracks.
C10_InvalidTrackingMethod ==
    (/\ TrackingMethodUsed(tracking_method) \notin {"laptrack", "spatial_laptrack"}
     /\ frame = Len(movie)
     /\ pc # "track")
        => /\ pc = "raised"
           /\ error = "RuntimeError"
           /\ mid_body_tracks = <<>>

C10_Witness ==
    /\ pc = "raised"
    /\ error = "RuntimeError"
    /\ tracking_method = "trackmate"
    /\ \E f \in 1..Len(spots_dictionary) : Len(spots_dictionary[f]) > 0

C21_OneEntryPerFrame ==
    /\ pc = "detect" => Len(spots_dictionary) = frame
    /\ pc \in {"track", "select", "write", "done"} =>
          /\ frame = Len(movie)
          /\ Len(spots_dictionary) = Len(movie)
    /\ \A f \in 1..Len(spots_dictionary) :
          \A k \in 1..Len(spots_dictionary[f]) :
              spots_dictionary[f][k].frame = f - 1

\* a movie with a frame without detection before a frame with one
C21_Witness ==
    /\ pc = "track"
    /\ Len(spots_dictionary[1]) = 0
    /\ Len(spots_dictionary[Len(movie)]) > 0

\* C11: when the caller names no tracking method, the linker that
\* generate_tracks_from_spots configures is the spatially-aware one
\* (SpatialLapTrack).
C11_DefaultIsSpatiallyAware ==
    (tracking_method = Unnamed /\ pc \in {"select", "write", "done"})
        => linker.class = "SpatialLapTrack"

-----------------------------------------------------------------------------
(* Properties of _spot_detection *)

DetectEnded == pc \in {"detect_returned", "detect_raised"}

\* C7: _spot_detection called with a mode that is neither a callable nor one
\* of the strategy names the interface offers raises the unknown-mode error
\* (ValueError) and produces no spots.
C7_UnknownModeRejected ==
    (DetectEnded /\ mode # CallableMode /\ mode \notin InterfaceNames)
        => /\ pc = "detect_raised"
           /\ error = "ValueError"
           /\ spots_dictionary = <<>>

\* C8: every built-in strategy name the interface offers is dispatched to a
\* detector: the call is not rejected as an unknown mode (ValueError) and does
\* not fail on the name-to-detector lookup (KeyError).
C8_BuiltinNamesDispatched ==
    (DetectEnded /\ mode \in InterfaceNames)
        => error \notin {"ValueError", "KeyError"}

\* C9: with a callable strategy, _spot_detection returns without raising one
\* spot per blob, in order, with x = blob[1], y = blob[0] (0-based) and the
\* frame index given.
C9_CallableBlobsToSpots ==
    (DetectEnded /\ mode = CallableMode) =>
        /\ pc = "detect_returned"
        /\ Len(spots_dictionary) = 1
        /\ Len(spots_dictionary[1]) = Len(movie[1].blobs)
        /\ \A i \in 1..Len(movie[1].blobs) :
              /\ spots_dictionary[1][i].x = movie[1].blobs[i][2]
              /\ spots_dictionary[1][i].y = movie[1].blobs[i][1]
              /\ spots_dictionary[1][i].frame = frame

-----------------------------------------------------------------------------
(* generate_tracks_from_spots called on a frame -> spots mapping *)

\* frames of the mapping given to generate_tracks_from_spots alone
NbBuildFrames == 3

\* the configuration of the builder runs: mid_body_linking_max_distance is 3
BuildConfig == Config(3, 3, 1)

BuildSpot(fr, px, mlkp) == MidBodySpot(fr, px, 0, mlkp, 4)

\* the spot lists of a frame: none, one spot (at 0, next to it, or out of
\* reach; dark or bright in the MLKP channel), two spots at one position,
\* two spots out of reach of each other
BuildSpotLists(fr) ==
    {<<>>}
    \cup {<<BuildSpot(fr, px, mlkp)>> : px \in {0, 1, 4}, mlkp \in {0, 4}}
    \cup {<<BuildSpot(fr, 0, 4), BuildSpot(fr, 0, 8)>>,
          <<BuildSpot(fr, 0, 4), BuildSpot(fr, 4, 4)>>}

RECURSIVE BuildInputs(_)
BuildInputs(n) ==
    IF n = 0 THEN {<<>>}
    ELSE {Append(sc, l) : sc \in BuildInputs(n - 1), l \in BuildSpotLists(n - 1)}

InitBuild ==
    /\ pc = "track"
    /\ cfg = BuildConfig
    /\ mode = "h_maxima"
    /\ tracking_method \in TrackingMethods
    /\ movie = <<>>
    /\ mask_movie = <<>>
    /\ frame = NbBuildFrames
    /\ spots_dictionary \in BuildInputs(NbBuildFrames)
    /\ mid_body_tracks = <<>>
    /\ kept_track = None
    /\ mitosis_track = None
    /\ error = "none"
    /\ NoWidget
    /\ NoColorManager
    /\ linker = None
    /\ track_df = <<>>
    /\ rerun_tracks = <<>>
    /\ hereditary = None

\* predict_dataframe called again on the same rows with the same linker: the
\* solver computes the same assignment
PredictAgain(rows, lt, c, before) ==
    {labels \in {before} :
        /\ Len(labels) = Len(rows)
        /\ \A n \in 1..Len(rows) :
              MayJoin(rows, SubSeq(labels, 1, n - 1), n, labels[n], lt, c)}

\* a second call whose linker solves the assignment afresh, in any allowed way
GenerateTracksAgain_FreshOutcome ==
    /\ pc = "select"
    /\ LET lt == LinkerConfig(TrackingMethodUsed(tracking_method), cfg)
           rows == SpotsDf(spots_dictionary, Len(spots_dictionary))
       IN /\ lt.err = "none"
          /\ \E labels \in LinkerOutcomes(rows, lt, cfg) :
                rerun_tracks' = MaterialiseTracks(spots_dictionary, rows, labels)
    /\ pc' = "rerun_done"
    /\ UNCHANGED <<widget_vars, color_vars>>
    /\ UNCHANGED <<cfg, mode, tracking_method, movie, mask_movie, frame,
                   spots_dictionary, mid_body_tracks, kept_track, mitosis_track,
                   error, linker, track_df, hereditary>>

\* generate_tracks_from_spots called a second time on the same mapping
GenerateTracksAgain ==
    /\ pc = "select"
    /\ LET lt == LinkerConfig(TrackingMethodUsed(tracking_method), cfg)
           rows == SpotsDf(spots_dictionary, Len(spots_dictionary))
       IN /\ lt.err = "none"
          /\ \E labels \in PredictAgain(rows, lt, cfg, track_df) :
                rerun_tracks' = MaterialiseTracks(spots_dictionary, rows, labels)
    /\ pc' = "rerun_done"
    /\ UNCHANGED <<widget_vars, color_vars>>
    /\ UNCHANGED <<cfg, mode, tracking_method, movie, mask_movie, frame,
                   spots_dictionary, mid_body_tracks, kept_track, mitosis_track,
                   error, linker, track_df, hereditary>>

NextBuild ==
    \/ GenerateTracks
    \/ GenerateTracksAgain

SpecBuild == InitBuild /\ [][NextBuild]_vars

-----------------------------------------------------------------------------
(* _update_spots_hereditary *)

\* spot1.distance_to(spot2): the Euclidean distance of the two positions
DistanceTo(spot1, spot2) ==
    Sqrt(Dist2(<<spot1.x, spot1.y>>, <<spot2.x, spot2.y>>))

\* cost_matrix[i, j] as the double loop fills it: np.inf beyond the maximum
\* linking distance, else (penalty * distance) ** 1
HereditaryCost(spot1, spot2, c) ==
    LET intensity_penalty ==
            Penalty(c.weight_mklp_intensity_factor, spot1.intensity, spot2.intensity)
        sir_intensity_penalty ==
            Penalty(c.weight_sir_intensity_factor,
                    spot1.sir_intensity, spot2.sir_intensity)
        distance == DistanceTo(spot1, spot2)
    IN IF distance > c.mid_body_linking_max_distance THEN PInf
       ELSE IF intensity_penalty = NaN \/ sir_intensity_penalty = NaN THEN NaN
       ELSE LET penalty == RAdd(Fin(1, 1),
                                RAdd(intensity_penalty, sir_intensity_penalty))
            IN Fin(penalty.n * distance, penalty.d)

\* the largest and the smallest of a non-empty set of numbers without nan
RMax(S) == CHOOSE a \in S : \A b \in S : ~RLess(a, b)
RMin(S) == CHOOSE a \in S : \A b \in S : ~RLess(b, a)

\* the top left block of the cost matrix
TopLeft(spots1, spots2, c) ==
    [i \in 1..Len(spots1) |->
        [j \in 1..Len(spots2) |-> HereditaryCost(spots1[i], spots2[j], c)]]

TopLeftEntries(spots1, spots2, c) ==
    {TopLeft(spots1, spots2, c)[i][j] : i \in 1..Len(spots1), j \in 1..Len(spots2)}

\* max_cost: the largest cost of a pair within the maximum distance, or 0
MaxCost(spots1, spots2, c) ==
    RMax({Fin(0, 1)} \cup {e \in TopLeftEntries(spots1, spots2, c) : IsFin(e)})

\* min_cost: 0 for an all-zero matrix, else the smallest non-zero entry
MinCost(spots1, spots2, c) ==
    LET nonzero == {e \in TopLeftEntries(spots1, spots2, c) : ~REq(e, Fin(0, 1))}
    IN IF nonzero = {} THEN Fin(0, 1) ELSE RMin(nonzero)

\* the padded square matrix given to linear_sum_assignment
CostMatrix(spots1, spots2, c) ==
    LET n1 == Len(spots1)
        n2 == Len(spots2)
        max_cost == MaxCost(spots1, spots2, c)
        padding == Fin(21 * max_cost.n, 20 * max_cost.d)
    IN [i \in 1..(n1 + n2) |-> [j \in 1..(n1 + n2) |->
          IF i <= n1 /\ j <= n2 THEN TopLeft(spots1, spots2, c)[i][j]
          ELSE IF i > n1 /\ j > n2 THEN MinCost(spots1, spots2, c)
          ELSE padding]]

RECURSIVE GCD(_, _)
GCD(a, b) == IF b = 0 THEN a ELSE GCD(b, a % b)

\* a fraction in lowest terms
Reduce(a) ==
    LET g == GCD(a.n, a.d) IN IF g = 0 THEN a ELSE Fin(a.n \div g, a.d \div g)

ColumnOrders(n) ==
    {f \in [1..n -> 1..n] : \A i \in 1..n : \A j \in 1..n : i # j => f[i] # f[j]}

HasNaN(matrix) ==
    \E i \in 1..Len(matrix) : \E j \in 1..Len(matrix) : matrix[i][j] = NaN

RECURSIVE TotalCost(_, _, _)
\* cost_matrix[row_ind, col_ind].sum() over the first n rows
TotalCost(matrix, col_ind, n) ==
    IF n = 0 THEN Fin(0, 1)
    ELSE Reduce(RAdd(TotalCost(matrix, col_ind, n - 1), matrix[n][col_ind[n]]))

\* linear_sum_assignment(cost_matrix): the column of every row in an
\* assignment of least total cost that uses no np.inf entry
LinearSumAssignment(matrix) ==
    LET n == Len(matrix)
        feasible == {f \in ColumnOrders(n) : \A i \in 1..n : IsFin(matrix[i][f[i]])}
        total == [f \in feasible |-> TotalCost(matrix, f, n)]
        least == RMin({total[f] : f \in feasible})
    IN {f \in feasible : REq(total[f], least)}

\* parent_spot / child_spot of the spots of two lists: child[i] of spots1[i]
\* and parent[j] of spots2[j] are 0 for None, the index in the other list, or
\* -1 for a spot of some other list
Links(n1, n2, v) == [child |-> [i \in 1..n1 |-> v], parent |-> [j \in 1..n2 |-> v]]

\* a loop that gives every spot of spots1 the first spot of spots2 as child
UpdateLinks_Greedy(h, col_ind, n1, n2) ==
    [child |-> [i \in 1..n1 |-> 1], parent |-> [j \in 1..n2 |-> IF j = 1 THEN n1 ELSE h.parent[j]]]

\* the loop over zip(row_ind, col_ind)
UpdateLinks(h, col_ind, n1, n2) ==
    [child |-> [i \in 1..n1 |-> IF col_ind[i] <= n2 THEN col_ind[i] ELSE h.child[i]],
     parent |-> [j \in 1..n2 |->
                   IF \E i \in 1..n1 : col_ind[i] = j
                   THEN CHOOSE i \in 1..n1 : col_ind[i] = j
                   ELSE h.parent[j]]]

\* the lengths of the two spot lists
HeredLengths == {0, 1, 2}

HeredSpot(fr, px, intensity) == MidBodySpot(fr, px, 0, intensity, 4)

HeredLists(fr) ==
    UNION {[1..n -> {HeredSpot(fr, px, intensity) :
                        px \in {0, 1, 4}, intensity \in {0, 4}}] :
              n \in HeredLengths}

InitHered ==
    /\ pc = "hereditary_call"
    /\ cfg = BuildConfig
    /\ mode = "h_maxima"
    /\ tracking_method = "laptrack"
    /\ movie = <<>>
    /\ mask_movie = <<>>
    /\ frame = 0
    /\ \E spots1 \in HeredLists(0) : \E spots2 \in HeredLists(1) :
          /\ spots_dictionary = <<spots1, spots2>>
          /\ hereditary \in {Links(Len(spots1), Len(spots2), v) : v \in {0, -1}}
    /\ mid_body_tracks = <<>>
    /\ kept_track = None
    /\ mitosis_track = None
    /\ error = "none"
    /\ NoWidget
    /\ NoColorManager
    /\ linker = None
    /\ track_df = <<>>
    /\ rerun_tracks = <<>>

\* a return that resets the links of the spots of the other list
EmptyListReturn_Resets ==
    /\ pc = "hereditary_call"
    /\ Len(spots_dictionary[1]) = 0 \/ Len(spots_dictionary[2]) = 0
    /\ hereditary' = Links(Len(spots_dictionary[1]), Len(spots_dictionary[2]), 0)
    /\ pc' = "hereditary_returned"
    /\ UNCHANGED <<widget_vars, color_vars>>
    /\ UNCHANGED <<cfg, mode, tracking_method, movie, mask_movie, frame,
                   spots_dictionary, mid_body_tracks, kept_track, mitosis_track,
                   error, linker, track_df, rerun_tracks>>

\* if len(spots1) == 0 or len(spots2) == 0: return
EmptyListReturn ==
    /\ pc = "hereditary_call"
    /\ Len(spots_dictionary[1]) = 0 \/ Len(spots_dictionary[2]) = 0
    /\ pc' = "hereditary_returned"
    /\ UNCHANGED <<widget_vars, color_vars>>
    /\ UNCHANGED <<cfg, mode, tracking_method, movie, mask_movie, frame,
                   spots_dictionary, mid_body_tracks, kept_track, mitosis_track,
                   error, linker, track_df, rerun_tracks, hereditary>>

\* the cost matrix, the Hungarian algorithm and the update of the links
UpdateSpotsHereditary ==
    /\ pc = "hereditary_call"
    /\ Len(spots_dictionary[1]) > 0 /\ Len(spots_dictionary[2]) > 0
    /\ LET spots1 == spots_dictionary[1]
           spots2 == spots_dictionary[2]
           cost_matrix == CostMatrix(spots1, spots2, cfg)
       IN /\ ~HasNaN(cost_matrix)
          /\ \E col_ind \in LinearSumAssignment(cost_matrix) :
                hereditary' = UpdateLinks(hereditary, col_ind, Len(spots1), Len(spots2))
    /\ pc' = "hereditary_returned"
    /\ UNCHANGED <<widget_vars, color_vars>>
    /\ UNCHANGED <<cfg, mode, tracking_method, movie, mask_movie, frame,
                   spots_dictionary, mid_body_tracks, kept_track, mitosis_track,
                   error, linker, track_df, rerun_tracks>>

\* linear_sum_assignment raises ValueError on a matrix with a nan entry
UpdateSpotsHereditaryRaises ==
    /\ pc = "hereditary_call"
    /\ Len(spots_dictionary[1]) > 0 /\ Len(spots_dictionary[2]) > 0
    /\ HasNaN(CostMatrix(spots_dictionary[1], spots_dictionary[2], cfg))
    /\ error' = "ValueError"
    /\ pc' = "hereditary_raised"
    /\ UNCHANGED <<widget_vars, color_vars>>
    /\ UNCHANGED <<cfg, mode, tracking_method, movie, mask_movie, frame,
                   spots_dictionary, mid_body_tracks, kept_track, mitosis_track,
                   linker, track_df, rerun_tracks, hereditary>>

NextHered ==
    \/ EmptyListReturn
    \/ UpdateSpotsHereditary
    \/ UpdateSpotsHereditaryRaises

SpecHered == InitHered /\ [][NextHered]_vars

-----------------------------------------------------------------------------
(* Properties of the link costs *)

\* the rows of spots_df of the builder call, and the rows that hold a spot
Rows == SpotsDf(spots_dictionary, Len(spots_dictionary))
SpotRows == {i \in 1..Len(Rows) : ~Rows[i].isnan}

RowSpot(i) == MidBodySpot(Rows[i].frame, Rows[i].x, Rows[i].y, Rows[i].mlkp, Rows[i].sir)

\* rows i < j are joined by a link: they follow each other in a track
Linked(i, j) ==
    /\ i < j
    /\ track_df[i] = track_df[j]
    /\ \A m \in (i + 1)..(j - 1) : track_df[m] # track_df[i]

Distance2(i, j) == Dist2(<<Rows[i].x, Rows[i].y>>, <<Rows[j].x, Rows[j].y>>)

MaxDistance2 == cfg.mid_body_linking_max_distance * cfg.mid_body_linking_max_distance

\* a cost that is a number above / below the cutoff
Above(cost, cutoff) == cost # NaN /\ cost.n > cutoff * cost.d
Below(cost, cutoff) == cost # NaN /\ cost.n < cutoff * cost.d

\* C12: two spots further apart than mid_body_linking_max_distance are never
\* linked, whatever their intensities: their entry of the cost matrix of
\* _update_spots_hereditary is np.inf, and their dist_metric cost is above the
\* linking and the gap-closing cutoff of both linkers.
C12_FarSpotsNeverLinked ==
    pc = "select" =>
        \A i \in SpotRows : \A j \in SpotRows :
            (Rows[i].frame < Rows[j].frame /\ Distance2(i, j) > MaxDistance2) =>
                /\ HereditaryCost(RowSpot(i), RowSpot(j), cfg) = PInf
                /\ \A method \in TrackingMethods :
                      /\ Above(DistMetric(Rows[i], Rows[j], cfg),
                               LinkerConfig(method, cfg).track_cost_cutoff)
                      /\ Above(DistMetric(Rows[i], Rows[j], cfg),
                               LinkerConfig(method, cfg).gap_closing_cost_cutoff)
                /\ ~Linked(i, j)

\* C13: for two spots at most mid_body_linking_max_distance apart, with any
\* non-negative intensities, the link cost is a finite number that the cutoff
\* does not exclude, and for fixed intensities the cost strictly increases
\* with the distance.
C13_NearCostFiniteAndIncreasing ==
    pc = "select" =>
        \A i \in SpotRows : \A j \in SpotRows :
            (Rows[i].frame < Rows[j].frame /\ Distance2(i, j) <= MaxDistance2) =>
                /\ IsFin(HereditaryCost(RowSpot(i), RowSpot(j), cfg))
                /\ IsFin(DistMetric(Rows[i], Rows[j], cfg))
                /\ Below(DistMetric(Rows[i], Rows[j], cfg), linker.track_cost_cutoff)
                /\ \A k \in SpotRows : \A l \in SpotRows :
                      (/\ Rows[k].frame < Rows[l].frame
                       /\ Rows[k].mlkp = Rows[i].mlkp /\ Rows[l].mlkp = Rows[j].mlkp
                       /\ Rows[k].sir = Rows[i].sir /\ Rows[l].sir = Rows[j].sir
                       /\ Distance2(k, l) < Distance2(i, j))
                          => /\ RLess(DistMetric(Rows[k], Rows[l], cfg),
                                      DistMetric(Rows[i], Rows[j], cfg))
                             /\ RLess(HereditaryCost(RowSpot(k), RowSpot(l), cfg),
                                      HereditaryCost(RowSpot(i), RowSpot(j), cfg))

-----------------------------------------------------------------------------
(* Properties of the tracks generate_tracks_from_spots returns *)

TrackSpots(track) == {track.spots[k] : k \in 1..Len(track.spots)}

\* C14: every input spot is added to exactly one returned track, the one
\* whose id the linker gave to the row of that spot, also when two spots of a
\* frame have the same position, and no returned track is empty.
C14_TracksHoldAssignedSpots ==
    pc = "select" =>
        /\ \A i \in SpotRows :
              /\ \E t \in 1..Len(mid_body_tracks) :
                    mid_body_tracks[t].track_id = track_df[i]
              /\ \A t \in 1..Len(mid_body_tracks) :
                    RowSpot(i) \in TrackSpots(mid_body_tracks[t])
                        <=> mid_body_tracks[t].track_id = track_df[i]
        /\ \A t \in 1..Len(mid_body_tracks) : Len(mid_body_tracks[t].spots) > 0

\* the grouping of the spots into tracks: the set of the spot sets
Grouping(tracks) == {TrackSpots(tracks[t]) : t \in 1..Len(tracks)}

SamePlacePair(f) ==
    /\ \A g \in 1..Len(spots_dictionary) :
          Len(spots_dictionary[g]) = (IF g \in {f, f + 1} THEN 1 ELSE 0)
    /\ spots_dictionary[f][1].x = spots_dictionary[f + 1][1].x
    /\ spots_dictionary[f][1].y = spots_dictionary[f + 1][1].y
    /\ spots_dictionary[f][1].intensity = spots_dictionary[f + 1][1].intensity
    /\ spots_dictionary[f][1].sir_intensity = spots_dictionary[f + 1][1].sir_intensity

\* C16: two consecutive frames with one spot each, at the same position and
\* with equal intensities (0 included), give one track of length 2 that holds
\* both spots, and the cost of their link is 0.
C16_SamePlaceSpotsLinked ==
    pc = "select" =>
        \A f \in 1..(Len(spots_dictionary) - 1) :
            SamePlacePair(f) =>
                LET a == spots_dictionary[f][1]
                    b == spots_dictionary[f + 1][1]
                IN /\ DistMetric(SpotRow(a), SpotRow(b), cfg) = Fin(0, 1)
                   /\ HereditaryCost(a, b, cfg) = Fin(0, 1)
                   /\ Len(mid_body_tracks) = 1
                   /\ TrackSpots(mid_body_tracks[1]) = {a, b}

\* the rows of two spots that follow each other in a returned track
RowOfSpot(spot) == CHOOSE i \in SpotRows : RowSpot(i) = spot

FollowsInTrack(track, a, b) ==
    /\ a.frame < b.frame
    /\ \A k \in 1..Len(track.spots) :
          ~(a.frame < track.spots[k].frame /\ track.spots[k].frame < b.frame)

\* C17: no link uses a frame without spots: no row of an empty frame is
\* joined to another row, and two spots that follow each other in a returned
\* track are joined by a link between the two of them that is within the
\* cost cutoff and the frame window of the linker.
C17_NoLinkThroughEmptyFrame ==
    pc = "select" =>
        /\ \A i \in 1..Len(Rows) : \A j \in 1..Len(Rows) :
              Linked(i, j) => ~Rows[i].isnan /\ ~Rows[j].isnan
        /\ \A t \in 1..Len(mid_body_tracks) :
              \A a \in TrackSpots(mid_body_tracks[t]) :
                  \A b \in TrackSpots(mid_body_tracks[t]) :
                      FollowsInTrack(mid_body_tracks[t], a, b) =>
                          LinkAllowed(SpotRow(a), SpotRow(b), linker, cfg)

\* C19: no returned track has a spot keyed at a frame whose spot list is
\* empty, and no track is created for the row of an empty frame alone: every
\* returned track has the id of the row of some spot.
C19_NoPlaceholderInTracks ==
    pc = "select" =>
        /\ \A f \in 1..Len(spots_dictionary) :
              Len(spots_dictionary[f]) = 0 =>
                  \A t \in 1..Len(mid_body_tracks) :
                      (f - 1) \notin TrackFrameSet(mid_body_tracks[t])
        /\ \A t \in 1..Len(mid_body_tracks) :
              \E i \in SpotRows : track_df[i] = mid_body_tracks[t].track_id

\* a run with spots, and an empty frame whose row is in a track of its own
C19_Witness ==
    /\ pc = "select"
    /\ Len(mid_body_tracks) >= 1
    /\ \E i \in 1..Len(Rows) :
          /\ Rows[i].isnan
          /\ \A j \in SpotRows : track_df[j] # track_df[i]

-----------------------------------------------------------------------------
(* Properties of _update_spots_hereditary *)

\* C18: _update_spots_hereditary called with an empty list on either side
\* returns without error and changes no parent_spot and no child_spot.
C18_EmptyListNoAssignment ==
    [][(/\ pc = "hereditary_call"
        /\ Len(spots_dictionary[1]) = 0 \/ Len(spots_dictionary[2]) = 0)
          => /\ pc' = "hereditary_returned"
             /\ error' = "none"
             /\ hereditary' = hereditary]_vars

\* a call with one empty list and spots that were linked before
C18_Witness ==
    /\ pc = "hereditary_returned"
    /\ Len(spots_dictionary[1]) = 0
    /\ Len(spots_dictionary[2]) = 2
    /\ hereditary.parent[1] = -1

\* C20: after linking every spot has at most one predecessor and at most one
\* successor: no two spots of the first list have the same child, no two
\* spots of the second list the same parent, child and parent agree, and
\* both linkers of generate_tracks_from_spots have splitting and merging
\* disabled.
C20_OnePredecessorOneSuccessor ==
    pc = "hereditary_returned" =>
        LET n1 == Len(spots_dictionary[1])
            n2 == Len(spots_dictionary[2])
        IN /\ \A i \in 1..n1 : \A k \in 1..n1 :
                 (i # k /\ hereditary.child[i] > 0)
                     => hereditary.child[i] # hereditary.child[k]
           /\ \A j \in 1..n2 : \A k \in 1..n2 :
                 (j # k /\ hereditary.parent[j] > 0)
                     => hereditary.parent[j] # hereditary.parent[k]
           /\ \A i \in 1..n1 :
                 hereditary.child[i] > 0
                     => hereditary.parent[hereditary.child[i]] = i
           /\ \A method \in TrackingMethods :
                 /\ LinkerConfig(method, cfg).splitting_cost_cutoff = FALSE
                 /\ LinkerConfig(method, cfg).merging_cost_cutoff = FALSE

\* two spots on each side, both linked
C20_Witness ==
    /\ pc = "hereditary_returned"
    /\ Len(spots_dictionary[1]) = 2
    /\ Len(spots_dictionary[2]) = 2
    /\ hereditary.child[1] > 0
    /\ hereditary.child[2] > 0

\* (distance * (1 + primary_penalty + secondary_penalty))^2 for two spots whose
\* intensity sums are not 0
SquaredLinkCost(a, b, c) ==
    LET primary == Fin(3 * c.weight_mklp_intensity_factor.n * Abs(a.intensity - b.intensity),
                       c.weight_mklp_intensity_factor.d * (a.intensity + b.intensity))
        secondary == Fin(3 * c.weight_sir_intensity_factor.n
                           * Abs(a.sir_intensity - b.sir_intensity),
                         c.weight_sir_intensity_factor.d
                           * (a.sir_intensity + b.sir_intensity))
        factor == Reduce(RAdd(Fin(1, 1), RAdd(Reduce(primary), Reduce(secondary))))
    IN Reduce(Fin(Dist2(<<a.x, a.y>>, <<b.x, b.y>>) * factor.n * factor.n,
                  factor.d * factor.d))

\* C24: the link cost of two spots is
\* (distance * (1 + primary_penalty + secondary_penalty))^2 both in the cost
\* matrix of _update_spots_hereditary and in dist_metric.
C24_CostIsSquaredProduct ==
    pc = "hereditary_returned" =>
        \A i \in 1..Len(spots_dictionary[1]) : \A j \in 1..Len(spots_dictionary[2]) :
            LET a == spots_dictionary[1][i]
                b == spots_dictionary[2][j]
            IN (/\ a.intensity + b.intensity > 0
                /\ a.sir_intensity + b.sir_intensity > 0
                /\ DistanceTo(a, b) <= cfg.mid_body_linking_max_distance)
                   => /\ Reduce(DistMetric(SpotRow(a), SpotRow(b), cfg))
                             = SquaredLinkCost(a, b, cfg)
                      /\ Reduce(HereditaryCost(a, b, cfg)) = SquaredLinkCost(a, b, cfg)

\* C25: for two non-empty spot lists of N and M spots the matrix is
\* (N+M) x (N+M), its top right and bottom left entries are 1.05 times the
\* largest finite spot-to-spot cost, its bottom right entries are the smallest
\* non-zero spot-to-spot cost, and the solver always finds an assignment of
\* finite total cost.
C25_PaddedMatrixAlwaysSolved ==
    (pc # "hereditary_call" /\ Len(spots_dictionary[1]) > 0 /\ Len(spots_dictionary[2]) > 0) =>
        LET spots1 == spots_dictionary[1]
            spots2 == spots_dictionary[2]
            n1 == Len(spots1)
            n2 == Len(spots2)
            cost_matrix == CostMatrix(spots1, spots2, cfg)
            finite == {e \in TopLeftEntries(spots1, spots2, cfg) : IsFin(e)}
            nonzero == {e \in TopLeftEntries(spots1, spots2, cfg) : ~REq(e, Fin(0, 1))}
        IN /\ pc = "hereditary_returned"
           /\ Len(cost_matrix) = n1 + n2
           /\ \A i \in 1..(n1 + n2) : Len(cost_matrix[i]) = n1 + n2
           /\ \A i \in 1..(n1 + n2) : \A j \in 1..(n1 + n2) :
                 /\ ((i <= n1) # (j <= n2)) =>
                        \/ finite = {} /\ REq(cost_matrix[i][j], Fin(0, 1))
                        \/ /\ finite # {}
                           /\ \E m \in finite :
                                 /\ \A e \in finite : ~RLess(m, e)
                                 /\ REq(cost_matrix[i][j], Fin(21 * m.n, 20 * m.d))
                 /\ (i > n1 /\ j > n2 /\ nonzero # {}) =>
                        \E m \in nonzero :
                            /\ \A e \in nonzero : ~RLess(e, m)
                            /\ REq(cost_matrix[i][j], m)
           /\ \E col_ind \in LinearSumAssignment(cost_matrix) :
                 IsFin(TotalCost(cost_matrix, col_ind, n1 + n2))

\* the frames of the window of the first daughter at which the mother is
\* missing, and those at which both cells are segmented
WindowOfDaughter ==
    LET daughter_track == mitosis_track.daughter_tracks[1]
    IN daughter_track.start..(daughter_track.start + cfg.cytokinesis_duration - 1)

BothSegmented ==
    {f \in WindowOfDaughter :
        /\ f \in DOMAIN mitosis_track.daughter_tracks[1].spots
        /\ f \in DOMAIN mitosis_track.mother_track.spots}

FramePairs(f) ==
    PointPairs(mitosis_track.mother_track.spots[f],
               mitosis_track.daughter_tracks[1].spots[f], mitosis_track.position)

TiedPairs(f) ==
    {k \in 1..Len(FramePairs(f)) :
        \A l \in 1..Len(FramePairs(f)) :
            Dist2(FramePairs(f)[k][1], FramePairs(f)[k][2])
                <= Dist2(FramePairs(f)[l][1], FramePairs(f)[l][2])}

\* C27: at every frame of the window where both cells are segmented the
\* expected position is the midpoint of the closest pair of mother and
\* first-daughter boundary points, relative to the bounding box; pairs tied
\* at the minimal distance contribute equally.
C27_MidpointOfClosestPairs ==
    pc = "select_done" =>
        \A f \in BothSegmented :
            LET pos == ExpectedPositions(mitosis_track, cfg.cytokinesis_duration)
                           [f - mitosis_track.min_frame]
                pairs == FramePairs(f)
                tied == TiedPairs(f)
                sum_x == SumOver(tied, [k \in tied |-> pairs[k][1][1] + pairs[k][2][1]])
                sum_y == SumOver(tied, [k \in tied |-> pairs[k][1][2] + pairs[k][2][2]])
            IN /\ pos.nx * 2 * Cardinality(tied) = sum_x * pos.d
               /\ pos.ny * 2 * Cardinality(tied) = sum_y * pos.d

\* C28: the row inserted for an empty frame can never be linked to a spot:
\* under the "laptrack" and the "spatial_laptrack" configuration the cost
\* dist_metric returns for a pair with such a row,
\* 2 * mid_body_linking_max_distance, is above the linking cutoff and the
\* gap-closing cutoff.
C28_PlaceholderCostAboveCutoffs ==
    pc = "select" =>
        \A i \in 1..Len(Rows) : \A j \in 1..Len(Rows) :
            (Rows[i].frame < Rows[j].frame /\ Rows[i].isnan # Rows[j].isnan) =>
                /\ DistMetric(Rows[i], Rows[j], cfg)
                      = Fin(2 * cfg.mid_body_linking_max_distance, 1)
                /\ \A method \in TrackingMethods :
                      /\ Above(DistMetric(Rows[i], Rows[j], cfg),
                               LinkerConfig(method, cfg).track_cost_cutoff)
                      /\ Above(DistMetric(Rows[i], Rows[j], cfg),
                               LinkerConfig(method, cfg).gap_closing_cost_cutoff)
                /\ ~Linked(i, j)

\* C29: after update_mid_body_spots has selected a track, the keys of
\* mitosis_track.mid_body_spots are exactly the frames of the selected track
\* shifted by min_frame, also when the mapping held entries of an earlier run.
C29_KeysAreSelectedTrackFrames ==
    (pc = "done" /\ kept_track # None) =>
        DOMAIN mitosis_track.mid_body_spots
            = {r + mitosis_track.min_frame : r \in TrackFrameSet(kept_track)}

-----------------------------------------------------------------------------
(* MbTrackColorManager *)

\* range(10): the count of colours of tab10 kept in color_list
PaletteSize == 10

\* color_list, the first PaletteSize colours of the tab10 colormap
ColorList ==
    <<"tab:blue", "tab:orange", "tab:green", "tab:red", "tab:purple",
      "tab:brown", "tab:pink", "tab:gray", "tab:olive", "tab:cyan">>

\* track ids are 0..MaxId
MaxId == 11

\* an inc_index that never goes back to 0
IncIndex_NoWrap(index) == index + 1

\* inc_index: index += 1, back to 0 at len(color_list)
IncIndex(index) == IF index + 1 >= PaletteSize THEN 0 ELSE index + 1

\* __init__: index 0 and an empty id2color; order lists the keys of id2color
\* in insertion order, last_color is the last call and the colour it returned
InitColor ==
    /\ pc = "color"
    /\ cfg = BuildConfig
    /\ mode = "h_maxima"
    /\ tracking_method = "laptrack"
    /\ movie = <<>>
    /\ mask_movie = <<>>
    /\ frame = 0
    /\ spots_dictionary = <<>>
    /\ mid_body_tracks = <<>>
    /\ kept_track = None
    /\ mitosis_track = None
    /\ error = "none"
    /\ NoWidget
    /\ color_manager = [index |-> 0, id2color |-> <<>>]
    /\ order = <<>>
    /\ last_color = None
    /\ linker = None
    /\ track_df = <<>>
    /\ rerun_tracks = <<>>
    /\ hereditary = None

SeenIds == {order[k] : k \in 1..Len(order)}

\* the ids a call may carry: any id seen before, or the smallest or the
\* largest id not seen yet
CallIds ==
    LET unseen == (0..MaxId) \ SeenIds
    IN SeenIds \cup {id \in unseen : \A other \in unseen : id <= other}
               \cup {id \in unseen : \A other \in unseen : id >= other}

\* get_color_for_track(id)
GetColorForTrack ==
    /\ pc = "color"
    /\ \E id \in CallIds :
          IF id \in DOMAIN color_manager.id2color
          THEN /\ last_color' = [id |-> id, color |-> color_manager.id2color[id]]
               /\ UNCHANGED <<color_manager, order>>
          ELSE LET new_color == ColorList[color_manager.index + 1]
               IN /\ color_manager' =
                        [index |-> IncIndex(color_manager.index),
                         id2color |-> [i \in DOMAIN color_manager.id2color \cup {id} |->
                                         IF i = id THEN new_color
                                         ELSE color_manager.id2color[i]]]
                  /\ order' = Append(order, id)
                  /\ last_color' = [id |-> id, color |-> new_color]
    /\ UNCHANGED widget_vars
    /\ UNCHANGED builder_vars
    /\ UNCHANGED <<pc, cfg, mode, tracking_method, movie, mask_movie, frame,
                   spots_dictionary, mid_body_tracks, kept_track, mitosis_track,
                   error>>

NextColor == GetColorForTrack

SpecColor == InitColor /\ [][NextColor]_vars

\* the place of an id among the distinct ids seen, counted from 0
FirstSeen(id) == (CHOOSE k \in 1..Len(order) : order[k] = id) - 1

\* C30: after any sequence of get_color_for_track calls a track id receives
\* the colour it received on its first call, the index stays within 0..9 and
\* the k-th distinct id seen (k counted from 0) has palette colour k mod 10.
C30_ColorByFirstCall ==
    pc = "color" =>
        /\ color_manager.index \in 0..9
        /\ DOMAIN color_manager.id2color = SeenIds
        /\ \A k \in 1..Len(order) :
              color_manager.id2color[order[k]] = ColorList[((k - 1) % 10) + 1]
        /\ last_color # None =>
              last_color.color = ColorList[(FirstSeen(last_color.id) % 10) + 1]

\* more ids than colours, and a call that asks again for the first id
C30_Witness ==
    /\ pc = "color"
    /\ Len(order) > PaletteSize
    /\ last_color # None
    /\ last_color.id = order[1]
    /\ color_manager.id2color[order[PaletteSize + 1]] = ColorList[1]

-----------------------------------------------------------------------------
(* perform_mid_body_detection: the loop over the mitosis events of a video *)

\* largest number of mitosis records loaded for the video
NbEvents == 2

PerformConfig == Config(MaxX, 3, 1)

\* the movies generate_video_movie cuts out for an event: a mid-body at pixel
\* (0, 0) in the frames of S
PerformMovies ==
    {[f \in 1..NbFrames |->
         Image(IF f \in S THEN <<<<0, 0, 1>>>> ELSE <<>>, FlatImage, RampImage)] :
        S \in {{}, {1, NbFrames}, 1..NbFrames}}

\* the records unpickled for the video: with or without spots of an earlier run
PerformRecords ==
    {r \in MitosisTracks(NbFrames, {FALSE, TRUE}, {<<0, -1>>}) :
        r.min_frame = 0 /\ r.key_events_frame.cytokinesis = 0}

\* the state before the first iteration: the records are loaded, none is
\* processed, nothing is written
InitPerform ==
    /\ pc = "perform_loop"
    /\ cfg = PerformConfig
    /\ mode \in {"h_maxima", "unknown"}
    /\ tracking_method \in {"spatial_laptrack", "trackmate"}
    /\ movie = <<>>
    /\ mask_movie = <<>>
    /\ frame = 0
    /\ spots_dictionary = <<>>
    /\ mid_body_tracks = <<>>
    /\ kept_track = None
    /\ mitosis_track = None
    /\ error = "none"
    /\ mitosis_tracks \in UNION {[1..n -> PerformRecords] : n \in 0..NbEvents}
    /\ event = 0
    /\ save \in BOOLEAN
    /\ movies_save_dir \in BOOLEAN
    /\ saved = [e \in 1..Len(mitosis_tracks) |-> None]
    /\ NoColorManager
    /\ linker = None
    /\ track_df = <<>>
    /\ rerun_tracks = <<>>
    /\ hereditary = None

\* an iteration that starts as soon as the spots of the event before are
\* written, without its save
NextEvent_BeforeSave ==
    /\ pc \in {"perform_loop", "done"}
    /\ event < Len(mitosis_tracks)
    /\ event' = event + 1
    /\ mitosis_track' = mitosis_tracks[event + 1]
    /\ movie' \in PerformMovies
    /\ mask_movie' = [f \in 1..NbFrames |-> FullMask]
    /\ frame' = 0
    /\ spots_dictionary' = <<>>
    /\ mid_body_tracks' = <<>>
    /\ kept_track' = None
    /\ linker' = None
    /\ track_df' = <<>>
    /\ pc' = "detect"
    /\ UNCHANGED <<mitosis_tracks, save, movies_save_dir, saved>>
    /\ UNCHANGED color_vars
    /\ UNCHANGED <<cfg, mode, tracking_method, error, rerun_tracks, hereditary>>

\* the next iteration of the loop: generate_video_movie and the entry into
\* update_mid_body_spots with the next record
NextEvent ==
    /\ pc = "perform_loop"
    /\ event < Len(mitosis_tracks)
    /\ event' = event + 1
    /\ mitosis_track' = mitosis_tracks[event + 1]
    /\ movie' \in PerformMovies
    /\ mask_movie' = [f \in 1..NbFrames |-> FullMask]
    /\ frame' = 0
    /\ spots_dictionary' = <<>>
    /\ mid_body_tracks' = <<>>
    /\ kept_track' = None
    /\ linker' = None
    /\ track_df' = <<>>
    /\ pc' = "detect"
    /\ UNCHANGED <<mitosis_tracks, save, movies_save_dir, saved>>
    /\ UNCHANGED color_vars
    /\ UNCHANGED <<cfg, mode, tracking_method, error, rerun_tracks, hereditary>>

\* the rest of the iteration after update_mid_body_spots returned: the record
\* is pickled if save, the movie is written if movies_save_dir
SaveEvent ==
    /\ pc = "done"
    /\ event >= 1
    /\ ~(movies_save_dir /\ ~save)
    /\ mitosis_tracks' = [mitosis_tracks EXCEPT ![event] = mitosis_track]
    /\ saved' = [saved EXCEPT ![event] =
                    [pickle |-> IF save THEN mitosis_track ELSE None,
                     tiff |-> movies_save_dir]]
    /\ pc' = "perform_loop"
    /\ UNCHANGED <<event, save, movies_save_dir>>
    /\ UNCHANGED builder_vars
    /\ UNCHANGED color_vars
    /\ UNCHANGED <<cfg, mode, tracking_method, movie, mask_movie, frame,
                   spots_dictionary, mid_body_tracks, kept_track, mitosis_track,
                   error>>

\* movies_save_dir without save: daughter_track_ids is read before it is
\* assigned
SaveEventRaises ==
    /\ pc = "done"
    /\ event >= 1
    /\ movies_save_dir /\ ~save
    /\ mitosis_tracks' = [mitosis_tracks EXCEPT ![event] = mitosis_track]
    /\ error' = "UnboundLocalError"
    /\ pc' = "raised"
    /\ UNCHANGED <<event, save, movies_save_dir, saved>>
    /\ UNCHANGED builder_vars
    /\ UNCHANGED color_vars
    /\ UNCHANGED <<cfg, mode, tracking_method, movie, mask_movie, frame,
                   spots_dictionary, mid_body_tracks, kept_track, mitosis_track>>

\* the loop is over
ReturnPerform ==
    /\ pc = "perform_loop"
    /\ event = Len(mitosis_tracks)
    /\ pc' = "returned"
    /\ UNCHANGED widget_vars
    /\ UNCHANGED builder_vars
    /\ UNCHANGED color_vars
    /\ UNCHANGED <<cfg, mode, tracking_method, movie, mask_movie, frame,
                   spots_dictionary, mid_body_tracks, kept_track, mitosis_track,
                   error>>

NextPerform ==
    \/ NextEvent
    \/ DetectFrame
    \/ DetectFrameRaises
    \/ GenerateTracks
    \/ GenerateTracksRaises
    \/ SelectTrack
    \/ ReturnWithoutTrack
    \/ WriteSpots
    \/ SaveEvent
    \/ SaveEventRaises
    \/ ReturnPerform

SpecPerform == InitPerform /\ [][NextPerform]_vars

\* C23: the stages of one mitosis event run in the order extraction of all
\* frames, track building, track selection, write to the record, each
\* finishing before the next starts; and perform_mid_body_detection finishes
\* the work of an event (update, then save when enabled) before it starts
\* the next event.
C23_StagesInOrder ==
    [][LET same_event == event' = event
       IN /\ (same_event /\ spots_dictionary' # spots_dictionary) =>
                /\ pc = "detect"
                /\ mid_body_tracks = <<>> /\ kept_track = None
                /\ mitosis_track = mitosis_tracks[event]
          /\ (same_event /\ mid_body_tracks' # mid_body_tracks) =>
                /\ pc = "track"
                /\ Len(spots_dictionary) = Len(movie)
                /\ spots_dictionary' = spots_dictionary
                /\ kept_track = None
                /\ mitosis_track = mitosis_tracks[event]
          /\ (same_event /\ kept_track' # kept_track) =>
                /\ pc = "select"
                /\ Len(spots_dictionary) = Len(movie)
                /\ mid_body_tracks' = mid_body_tracks
                /\ mitosis_track = mitosis_tracks[event]
          /\ mitosis_track' # mitosis_track =>
                \/ ~same_event
                \/ /\ pc = "write"
                   /\ kept_track' = kept_track
                   /\ mid_body_tracks' = mid_body_tracks
                   /\ spots_dictionary' = spots_dictionary
          /\ saved' # saved => same_event /\ pc = "done"
          /\ ~same_event =>
                /\ pc = "perform_loop" /\ pc' = "detect"
                /\ event' = event + 1
                /\ event >= 1 =>
                      /\ saved[event] # None
                      /\ save => saved[event].pickle = mitosis_tracks[event]
                      /\ movies_save_dir => saved[event].tiff
                /\ \A e \in (event + 1)..Len(mitosis_tracks) : saved[e] = None
      ]_vars

\* the second event is under way after the first one wrote and saved a track
C23_Witness ==
    /\ event = 2
    /\ pc = "write"
    /\ kept_track # None
    /\ save
    /\ saved[1].pickle # None
    /\ saved[1].pickle.mid_body_spots # mitosis_tracks[2].mid_body_spots
====
